---- MODULE Spec2Model ----
(***************************************************************************)
(* Control loop of the soil-analysis appliance.                            *)
(*                                                                         *)
(*   variant = "compiled" : src/compiled.py, the rotary-encoder / two      *)
(*                          button script with the serial moisture sensor  *)
(*   variant = "major"    : src/major.py, the keyboard-driven              *)
(*                          SoilAnalyzerApp                                *)
(*                                                                         *)
(* A behaviour is one run of one of the two scripts.  The environment      *)
(* (encoder shaft, the two push buttons, the serial link, the operator's   *)
(* interrupt key) acts between any two statements of the script.           *)
(***************************************************************************)
EXTENDS Integers, Sequences, FiniteSets, TLC

\* ------------------------------------------------------------------ bounds
\* The encoder counter is unbounded in the code (max_steps=0); the model
\* keeps it in -MaxSteps..MaxSteps, wide enough for a delta larger than the
\* crop count.
MaxSteps == 4

\* The analysis is computed for readings from two below the crop's dry
\* threshold to MaxDiff above it.
MaxDiff == 46

\* The log counts the lines a read examines up to LogCap.
LogCap == 11

\* --------------------------------------------------------- program constants
\* get_real_moisture: value returned when no serial handle exists
MOCK_MOISTURE == 500
\* get_real_moisture: value returned by the outer except
READ_ERROR_DEFAULT == 400
\* moisture is a local of the action; NoReading stands for "not assigned"
NoReading == -1

\* CROPS of compiled.py (name, n, limit are the fields the loop reads)
CROPS ==
    << [name |-> "Rice",    n |-> 60, limit |-> 250],
       [name |-> "Tomato",  n |-> 22, limit |-> 300],
       [name |-> "Lettuce", n |-> 18, limit |-> 250],
       [name |-> "Carrot",  n |-> 15, limit |-> 350],
       [name |-> "Potato",  n |-> 25, limit |-> 400],
       [name |-> "Wheat",   n |-> 50, limit |-> 350] >>

\* list(CROP_DATA.keys()) of major.py
crops == << "Rice", "Wheat", "Carrot", "Potato" >>

Buttons == {"knob_button", "ai_button"}

\* ------------------------------------------------------------ pure helpers
\* a remainder that truncates toward zero (sign of the dividend)
TruncMod(a, n) == IF a < 0 THEN 0 - ((0 - a) % n) ELSE a % n

\* Python's a % n for n > 0: floored, the result has the sign of the divisor
PyMod(a, n) == a % n

\* Lines the sensor may put on the link, as character sequences, before
\* decode('utf-8').strip().
SensorLines ==
    { << "2", "0", "0", "\r", "\n" >>,
      << "3", "0", "0", "\n" >>,
      << "-", "5", "\r", "\n" >>,
      << "a", "b", "\n" >>,
      << "\r", "\n" >>,
      << "0xFF", "2", "\n" >> }

\* What is left of a line when its first bytes were discarded
LineTails ==
    UNION { { SubSeq(l, k, Len(l)) : k \in 2..Len(l) } : l \in SensorLines }

Whitespace == {" ", "\r", "\n", "\t"}
Digits == {"0", "1", "2", "3", "4", "5", "6", "7", "8", "9"}

\* str.strip(): drop leading and trailing whitespace
RECURSIVE LStrip(_)
LStrip(s) ==
    IF s # << >> /\ Head(s) \in Whitespace THEN LStrip(Tail(s)) ELSE s

RECURSIVE RStrip(_)
RStrip(s) ==
    IF s # << >> /\ s[Len(s)] \in Whitespace
    THEN RStrip(SubSeq(s, 1, Len(s) - 1))
    ELSE s

Strip(s) == RStrip(LStrip(s))

\* str.isdigit(): non-empty and every character a digit
IsDigit(s) == s # << >> /\ \A i \in 1..Len(s) : s[i] \in Digits

DigitVal(c) ==
    CASE c = "0" -> 0 [] c = "1" -> 1 [] c = "2" -> 2 [] c = "3" -> 3
      [] c = "4" -> 4 [] c = "5" -> 5 [] c = "6" -> 6 [] c = "7" -> 7
      [] c = "8" -> 8 [] c = "9" -> 9

\* int(line) for a digit string
RECURSIVE ParseInt(_)
ParseInt(s) ==
    IF s = << >> THEN 0
    ELSE 10 * ParseInt(SubSeq(s, 1, Len(s) - 1)) + DigitVal(s[Len(s)])

\* compiled.py 123-129: get_fixed_npk()['n']
FixedSoilN == 20

\* compiled.py 131-138: get_fixed_npk_ph(), pH in tenths
FixedN == 20
FixedPh10 == 65

\* round(d * 0.05, 1) for an integer d in 0..99, in tenths.  d * 0.05 is a
\* binary double: for even d it lies next to the whole tenth d/2; for odd d
\* it is the halfway point itself only when 5 divides d (then round() takes
\* the even tenth) and otherwise the double just above or just below it.
\* HalfDown lists the odd d for which round() yields the lower tenth.
HalfDown == {5, 25, 43, 45, 65, 81, 85, 91}

RoundTenths(d) ==
    IF d % 2 = 0 THEN d \div 2
    ELSE IF d \in HalfDown THEN (d - 1) \div 2
    ELSE (d + 1) \div 2

\* a conversion to tenths that cuts the digits off instead of rounding
water_needed_cut(moist, limit) ==
    IF moist > limit THEN (moist - limit) \div 2 ELSE 0

\* compiled.py 159-162: water_needed, in tenths of a litre
water_needed(moist, limit) ==
    IF moist > limit THEN RoundTenths(moist - limit) ELSE 0

\* compiled.py 164-167: manure_needed, in tenths of a gram
manure_needed(soil_n, crop_n) ==
    IF soil_n < crop_n THEN RoundTenths(crop_n - soil_n) ELSE 0

\* ---------------------------------------------------------------- state
VARIABLES
    variant,            \* which script runs
    pc,                 \* position of the script
    exc,                \* exception that ends the process ("none" while it runs)
    exit_code,          \* process status once pc = "exited" (-1 while running)
    \* compiled.py
    lcd_handle,         \* "uninit" | "open" | "closed"
    lcd,                \* what the character display shows: <<kind, text>>
    ser,                \* "none" (ser = None) | "open" | "closed"
    rx_partial,         \* the input buffer was reset in the middle of a line:
                        \* the rest of that line is what readline() returns next
    encoder,            \* encoder.steps
    is_pressed,         \* [button -> BOOLEAN], the pins as the script reads them
    current_index,
    last_pos,
    crop_idx,           \* argument of analyze_specific_crop (0 outside the call)
    caller,             \* who called get_real_moisture: "an" | "dl" | "none"
    moisture,           \* local of the running action
    data,               \* what get_fixed_npk_ph() returns: [n, ph10]
    result,             \* what the running action computed (NoResult outside)
    \* history of the run (not program state)
    press_in_action,    \* [button -> BOOLEAN]: the press now held began inside an
                        \* action and no debounce has judged it yet
    samples,            \* the reads of the button check in progress: [button, reads]
    absorbed,           \* the resynchronisation just made swallowed encoder motion
    tick_diff,          \* the delta the polling tick just applied (0: none)
    grm_event,          \* what the last step of get_real_moisture met
    diag,               \* the diagnostic the last statement printed ("none": none)
    reader_log,         \* what the reads did, in the runs that keep the log
    \* major.py
    current_crop_index,
    running,
    last_knob_input,
    last_button_input,
    oled

hw == << lcd_handle, lcd, ser >>
link == << rx_partial, reader_log >>
menu == << current_index, last_pos >>
env == << encoder, is_pressed, press_in_action >>
locals == << crop_idx, caller, moisture, result >>
hist == << samples, absorbed, tick_diff, grm_event, diag >>
kb == << current_crop_index, running, last_knob_input, last_button_input, oled >>
vars == << variant, pc, exc, exit_code, hw, link, menu, env, locals, data, hist, kb >>

Blank == << "blank", "" >>

\* The log of the reader: the number of lines the read in progress has
\* examined (counted up to LogCap), the last of them as readline() returned
\* it, and how the reads before went: "error" after a read that ended in a
\* transport error, "recovered" when the read after it returned a line.  A
\* run keeps the log or not from its first state on (field on).
NoLog == [on |-> FALSE, lines |-> 0, line |-> << >>, prev |-> "none"]

LogLine(log, raw) ==
    IF log.on
    THEN [log EXCEPT !.lines = IF @ < LogCap THEN @ + 1 ELSE @, !.line = raw]
    ELSE log

LogReturn(log, ev) ==
    IF log.on
    THEN [log EXCEPT !.prev = IF ev = "io_error" THEN "error"
                              ELSE IF ev \in {"line", "fragment"}
                              THEN (IF @ = "error" THEN "recovered" ELSE "none")
                              ELSE @]
    ELSE log

LogDone(log) ==
    IF log.on
    THEN [log EXCEPT !.lines = 0, !.line = << >>,
                     !.prev = IF @ = "recovered" THEN "none" ELSE @]
    ELSE log
NoResult == [water |-> 0, manure |-> 0, prediction |-> "", hindi_prediction |-> ""]
NoSamples == [button |-> "none", reads |-> << >>]

Init ==
    /\ variant \in {"compiled", "major"}
    /\ pc = IF variant = "compiled" THEN "lcd_setup" ELSE "kb_init"
    /\ exc = "none"
    /\ exit_code = -1
    /\ lcd_handle = "uninit"
    /\ lcd = Blank
    /\ ser = "none"
    /\ rx_partial = FALSE
    /\ reader_log = NoLog
    /\ encoder = 0
    /\ is_pressed = [b \in Buttons |-> FALSE]
    /\ press_in_action = [b \in Buttons |-> FALSE]
    /\ current_index = 0
    /\ last_pos = 0
    /\ crop_idx = 0
    /\ caller = "none"
    /\ moisture = NoReading
    /\ data = [n |-> FixedN, ph10 |-> FixedPh10]
    /\ result = NoResult
    /\ samples = NoSamples
    /\ absorbed = FALSE
    /\ tick_diff = 0
    /\ grm_event = "none"
    /\ diag = "none"
    /\ current_crop_index = 0
    /\ running = TRUE
    /\ last_knob_input = ""
    /\ last_button_input = ""
    /\ oled = << "off", "" >>
\* a display setup that prints the error and goes on without a display
LcdSetupContinues ==
    /\ pc = "lcd_setup"
    /\ \E ok \in BOOLEAN :
         /\ lcd_handle' = IF ok THEN "open" ELSE lcd_handle
         /\ diag' = IF ok THEN "none" ELSE "LCD Error"
    /\ lcd' = Blank
    /\ pc' = "serial_setup"
    /\ UNCHANGED << variant, data, link, exc, exit_code, ser, menu, env, locals, samples,
                    absorbed, tick_diff, grm_event, kb >>

\* -------------------------------------------------------------- startup
\* compiled.py 66-77: the display is created and cleared, or the process
\* prints "LCD Error" and exits with status 1; then the controls are created.
LcdSetup ==
    /\ pc = "lcd_setup"
    /\ \E ok \in BOOLEAN :
         IF ok
         THEN /\ lcd_handle' = "open"
              /\ lcd' = Blank
              /\ pc' = "serial_setup"
              /\ diag' = "none"
              /\ UNCHANGED << exc, exit_code >>
         ELSE /\ pc' = "exited"
              /\ exc' = "SystemExit"
              /\ exit_code' = 1
              /\ diag' = "LCD Error"
              /\ UNCHANGED << lcd_handle, lcd >>
    /\ UNCHANGED << variant, data, link, ser, menu, env, locals, samples, absorbed, tick_diff,
                    grm_event, kb >>

\* compiled.py 80-89: open the serial port; on any Exception "Serial Error"
\* is printed and ser stays None
SerialSetup ==
    /\ pc = "serial_setup"
    /\ \E ok \in BOOLEAN :
         /\ ser' = IF ok THEN "open" ELSE "none"
         /\ diag' = IF ok THEN "none" ELSE "Serial Error"
    /\ pc' = "startup_speak"
    /\ UNCHANGED << variant, data, link, exc, exit_code, lcd_handle, lcd, menu, env, locals,
                    samples, absorbed, tick_diff, grm_event, kb >>

\* compiled.py 93-102: speak(text).  gTTS / tts.save raising an Exception is
\* caught and "TTS Error" printed; a failing mpg123 is an exit status nobody
\* reads.  Either way the call returns; spoken tells whether it was heard,
\* and diag marks the call that was not.
speak(spoken) == diag' = IF spoken THEN "none" ELSE "TTS Error"

\* compiled.py 266: the startup announcement
StartupSpeak ==
    /\ pc = "startup_speak"
    /\ \E spoken \in BOOLEAN : speak(spoken)
    /\ pc' = "startup_menu"
    /\ UNCHANGED << variant, data, link, exc, exit_code, hw, menu, env, locals, samples,
                    absorbed, tick_diff, grm_event, kb >>

\* CROPS[idx] with Python's list indexing: -len..-1 count from the end,
\* anything else outside 0..len-1 raises IndexError
CropAt(idx) ==
    IF idx >= 0 /\ idx < Len(CROPS) THEN CROPS[idx + 1]
    ELSE IF idx < 0 /\ idx >= 0 - Len(CROPS) THEN CROPS[idx + Len(CROPS) + 1]
    ELSE [name |-> "IndexError", n |-> 0, limit |-> 0]

\* compiled.py 254-259: "Select Crop:" / "> <crop name>"
show_menu(idx) == << "menu", CropAt(idx).name >>

\* compiled.py 267
StartupMenu ==
    /\ pc = "startup_menu"
    /\ lcd' = show_menu(current_index)
    /\ pc' = "poll_encoder"
    /\ diag' = "none"
    /\ UNCHANGED << variant, data, link, exc, exit_code, lcd_handle, ser, menu, env, locals,
                    samples, absorbed, tick_diff, grm_event, kb >>

\* ------------------------------------------------------------ main loop
\* Positions inside analyze_specific_crop / run_dl_prediction, and inside the
\* wait loop of the get_real_moisture call they make
AnalyzingPcs == {"an_begin", "an_calc"}
PredictingPcs == {"dl_begin", "dl_calc"}
ReadWaitPcs == {"grm_poll", "grm_readline", "grm_sleep"}
InAction == pc \in AnalyzingPcs \cup PredictingPcs \cup ReadWaitPcs

\* a tick that moves the index but forgets the position it has seen
PollEncoderStale ==
    /\ pc = "poll_encoder"
    /\ LET pos == encoder
           diff == pos - last_pos
       IN IF pos # last_pos
          THEN /\ current_index' = PyMod(current_index + diff, Len(CROPS))
               /\ last_pos' = last_pos
               /\ lcd' = show_menu(current_index')
          ELSE UNCHANGED << current_index, last_pos, lcd >>
    /\ pc' = "knob_check"
    /\ samples' = NoSamples
    /\ tick_diff' = encoder - last_pos
    /\ UNCHANGED << variant, data, link, exc, exit_code, lcd_handle, ser, env, locals,
                    absorbed, grm_event, diag, kb >>
\* a tick that moves the index and leaves the old crop on the display
PollEncoderNoRender ==
    /\ pc = "poll_encoder"
    /\ LET pos == encoder
           diff == pos - last_pos
       IN IF pos # last_pos
          THEN /\ current_index' = PyMod(current_index + diff, Len(CROPS))
               /\ last_pos' = pos
               /\ lcd' = lcd
          ELSE UNCHANGED << current_index, last_pos, lcd >>
    /\ pc' = "knob_check"
    /\ samples' = NoSamples
    /\ tick_diff' = encoder - last_pos
    /\ UNCHANGED << variant, data, link, exc, exit_code, lcd_handle, ser, env,
                    locals, absorbed, grm_event, diag, kb >>

\* compiled.py 277-282: one polling tick of the encoder
PollEncoder ==
    /\ pc = "poll_encoder"
    /\ LET pos == encoder
           diff == pos - last_pos
       IN IF pos # last_pos
          THEN /\ current_index' = PyMod(current_index + diff, Len(CROPS))
               /\ last_pos' = pos
               /\ lcd' = show_menu(current_index')
          ELSE UNCHANGED << current_index, last_pos, lcd >>
    /\ pc' = "knob_check"
    /\ samples' = NoSamples
    /\ tick_diff' = encoder - last_pos
    /\ UNCHANGED << variant, data, link, exc, exit_code, lcd_handle, ser, env, locals,
                    absorbed, grm_event, diag, kb >>

\* compiled.py 285: first sample of the knob button
KnobCheck ==
    /\ pc = "knob_check"
    /\ LET s == is_pressed["knob_button"]
       IN /\ samples' = [button |-> "knob_button", reads |-> << s >>]
          /\ pc' = IF s THEN "knob_debounce" ELSE "ai_check"
    /\ tick_diff' = 0
    /\ UNCHANGED << variant, data, link, exc, exit_code, hw, menu, env, locals, absorbed,
                    grm_event, diag, kb >>

\* a debounce that sleeps but does not look at the second sample
KnobDebounceNoRecheck ==
    /\ pc = "knob_debounce"
    /\ LET s == is_pressed["knob_button"]
       IN /\ samples' = [samples EXCEPT !.reads = Append(@, s)]
          /\ pc' = "an_begin"
          /\ crop_idx' = current_index
    /\ press_in_action' = [press_in_action EXCEPT !["knob_button"] = FALSE]
    /\ UNCHANGED << variant, data, link, exc, exit_code, hw, menu, encoder, is_pressed,
                    caller, moisture, result, absorbed, tick_diff, grm_event, diag, kb >>

\* compiled.py 286-288: sleep 100 ms, second sample; a confirmed press calls
\* analyze_specific_crop(current_index)
KnobDebounce ==
    /\ pc = "knob_debounce"
    /\ LET s == is_pressed["knob_button"]
       IN /\ samples' = [samples EXCEPT !.reads = Append(@, s)]
          /\ IF s
             THEN /\ pc' = "an_begin"
                  /\ crop_idx' = current_index
             ELSE /\ pc' = "ai_check"
                  /\ crop_idx' = crop_idx
    /\ press_in_action' = [press_in_action EXCEPT !["knob_button"] = FALSE]
    /\ UNCHANGED << variant, data, link, exc, exit_code, hw, menu, encoder, is_pressed,
                    caller, moisture, result, absorbed, tick_diff, grm_event, diag, kb >>

\* return of get_real_moisture to the action that called it
ReturnPc(who) == IF who = "an" THEN "an_calc" ELSE "dl_calc"

\* get_real_moisture returns v / goes on at position p
Return(who, v, ev) ==
    /\ pc' = ReturnPc(who)
    /\ moisture' = v
    /\ caller' = "none"
    /\ grm_event' = ev
    /\ rx_partial' = FALSE
    /\ reader_log' = LogReturn(reader_log, ev)

Goto(who, p, ev) ==
    /\ pc' = p
    /\ moisture' = moisture
    /\ caller' = who
    /\ grm_event' = ev
    /\ UNCHANGED link

\* ser.reset_input_buffer() went through: what was buffered is gone, and the
\* sensor, which sends on its own clock, may be in the middle of a line
ResetDone(who) ==
    /\ pc' = "grm_poll"
    /\ moisture' = moisture
    /\ caller' = who
    /\ grm_event' = "none"
    /\ rx_partial' \in BOOLEAN
    /\ reader_log' = reader_log

\* a reader that does not test the handle: ser.reset_input_buffer() on None
\* raises AttributeError, which the outer except turns into the default
GrmEnterNoCheck(who) ==
    IF ser = "open"
    THEN \E raised \in BOOLEAN :
           IF raised
           THEN Return(who, READ_ERROR_DEFAULT, "io_error")
           ELSE ResetDone(who)
    ELSE Return(who, READ_ERROR_DEFAULT, "io_error")

\* compiled.py 104-110: entry of get_real_moisture.  Without a serial handle
\* the fixed mock value is returned; otherwise the input buffer is reset, and
\* a transport error there is caught by the outer except (120-121)
GrmEnter(who) ==
    IF ser = "none"
    THEN Return(who, MOCK_MOISTURE, "mock")
    ELSE \E raised \in BOOLEAN :
           IF raised
           THEN Return(who, READ_ERROR_DEFAULT, "io_error")
           ELSE ResetDone(who)

\* compiled.py 143-153: "Analyzing...", the announcement, then the call of
\* get_real_moisture
AnBegin ==
    /\ pc = "an_begin"
    /\ lcd' = << "analyzing", "" >>
    /\ GrmEnter("an")
    /\ \E spoken \in BOOLEAN : speak(spoken)
    /\ UNCHANGED << variant, data, exc, exit_code, lcd_handle, ser, menu, env,
                    crop_idx, result, samples, absorbed, tick_diff, kb >>

\* a reader that loses the port on a read error: the outer except also
\* sets ser = None, and every later read takes the mock value
GrmPollDropsPort ==
    /\ pc = "grm_poll"
    /\ \E w \in {"raised", "empty", "data"} :
         CASE w = "raised" -> /\ Return(caller, READ_ERROR_DEFAULT, "io_error")
                              /\ ser' = "none"
           [] w = "empty"  -> Goto(caller, "grm_sleep", "none") /\ ser' = ser
           [] w = "data"   -> Goto(caller, "grm_readline", "none") /\ ser' = ser
    /\ diag' = "none"
    /\ UNCHANGED << variant, data, exc, exit_code, lcd_handle, lcd, menu, env,
                    crop_idx, result, samples, absorbed, tick_diff, kb >>

\* compiled.py 112: ser.in_waiting; it raises (outer except, return 400),
\* reports no pending byte, or reports pending bytes
GrmPoll ==
    /\ pc = "grm_poll"
    /\ \E w \in {"raised", "empty", "data"} :
         CASE w = "raised" -> Return(caller, READ_ERROR_DEFAULT, "io_error")
           [] w = "empty"  -> Goto(caller, "grm_sleep", "none")
           [] w = "data"   -> Goto(caller, "grm_readline", "none")
    /\ diag' = "none"
    /\ UNCHANGED << variant, data, exc, exit_code, hw, menu, env, crop_idx,
                    result, samples, absorbed, tick_diff, kb >>

\* bytes.decode('utf-8') raises UnicodeDecodeError on an invalid byte
Decodable(raw) == \A i \in 1..Len(raw) : raw[i] # "0xFF"

\* what readline() can return: a line of the sensor, or the rest of the line
\* the reset cut
Readable == IF rx_partial THEN LineTails ELSE SensorLines

\* the line just read is examined and the wait goes on
Skip(raw) ==
    /\ pc' = "grm_sleep"
    /\ moisture' = moisture
    /\ caller' = caller
    /\ grm_event' = "junk"
    /\ rx_partial' = FALSE
    /\ reader_log' = LogLine(reader_log, raw)

\* the line just read is returned as an integer
Accept(raw) ==
    LET ev == IF rx_partial THEN "fragment" ELSE "line"
    IN /\ pc' = ReturnPc(caller)
       /\ moisture' = ParseInt(Strip(raw))
       /\ caller' = "none"
       /\ grm_event' = ev
       /\ rx_partial' = FALSE
       /\ reader_log' = LogReturn(LogLine(reader_log, raw), ev)

\* the line just read ends the read with the default
GiveUp(raw) ==
    /\ pc' = ReturnPc(caller)
    /\ moisture' = READ_ERROR_DEFAULT
    /\ caller' = "none"
    /\ grm_event' = "junk"
    /\ rx_partial' = FALSE
    /\ reader_log' = LogLine(reader_log, raw)

\* a reader with a line budget: the tenth line that does not parse ends the
\* read with the default
GrmReadlineTenLines ==
    /\ pc = "grm_readline"
    /\ \E raw \in Readable :
         IF Decodable(raw) /\ IsDigit(Strip(raw))
         THEN Accept(raw)
         ELSE IF reader_log.lines >= 9 THEN GiveUp(raw) ELSE Skip(raw)
    /\ UNCHANGED << variant, data, exc, exit_code, hw, menu, env, crop_idx,
                    result, samples, absorbed, tick_diff, diag, kb >>

\* a reader that gives up on the first line that does not parse
GrmReadlineOneLine ==
    /\ pc = "grm_readline"
    /\ \E raw \in Readable :
         IF Decodable(raw) /\ IsDigit(Strip(raw)) THEN Accept(raw) ELSE GiveUp(raw)
    /\ UNCHANGED << variant, data, exc, exit_code, hw, menu, env, crop_idx,
                    result, samples, absorbed, tick_diff, diag, kb >>

\* compiled.py 113-118: readline().decode().strip(); a digit line is
\* returned as an integer; any other line, and a line that does not decode
\* (inner except: pass), falls through to the sleep
GrmReadline ==
    /\ pc = "grm_readline"
    /\ \E raw \in Readable :
         IF Decodable(raw) /\ IsDigit(Strip(raw)) THEN Accept(raw) ELSE Skip(raw)
    /\ UNCHANGED << variant, data, exc, exit_code, hw, menu, env, crop_idx,
                    result, samples, absorbed, tick_diff, diag, kb >>

\* compiled.py 113-118: ser.readline() raises a transport error
\* (SerialException); the inner bare except passes and the loop goes on
GrmReadlineRaises ==
    /\ pc = "grm_readline"
    /\ Goto(caller, "grm_sleep", "io_error")
    /\ UNCHANGED << variant, data, exc, exit_code, hw, menu, env, crop_idx,
                    result, samples, absorbed, tick_diff, diag, kb >>

\* compiled.py 119: time.sleep(0.1), then the while loop polls again
GrmSleep ==
    /\ pc = "grm_sleep"
    /\ Goto(caller, "grm_poll", "none")
    /\ UNCHANGED << variant, data, exc, exit_code, hw, menu, env, crop_idx,
                    result, samples, absorbed, tick_diff, diag, kb >>

\* an analysis in which the failed speech call is not caught: the error
\* leaves the action and the loop
AnCalcSpeakRaises ==
    /\ pc = "an_calc"
    /\ lcd' = << "result", CropAt(crop_idx).name >>
    /\ result' = [NoResult EXCEPT
                    !.water = water_needed(moisture, CropAt(crop_idx).limit),
                    !.manure = manure_needed(FixedSoilN, CropAt(crop_idx).n)]
    /\ moisture' = NoReading
    /\ reader_log' = LogDone(reader_log)
    /\ rx_partial' = rx_partial
    /\ grm_event' = "none"
    /\ \E spoken \in BOOLEAN :
         /\ speak(spoken)
         /\ pc' = IF spoken THEN "knob_return" ELSE "finally"
         /\ exc' = IF spoken THEN exc ELSE "Exception"
    /\ UNCHANGED << variant, data, exit_code, lcd_handle, ser, menu, env, crop_idx,
                    caller, samples, absorbed, tick_diff, kb >>

\* compiled.py 154-191: compute the quantities, render them ("Water: ..L" /
\* "Fert: ..g", the lcd of the model names the crop they are for), speak
\* them, hold 2 s and return to the loop
AnCalc ==
    /\ pc = "an_calc"
    /\ lcd' = << "result", CropAt(crop_idx).name >>
    /\ result' = [NoResult EXCEPT
                    !.water = water_needed(moisture, CropAt(crop_idx).limit),
                    !.manure = manure_needed(FixedSoilN, CropAt(crop_idx).n)]
    /\ moisture' = NoReading
    /\ reader_log' = LogDone(reader_log)
    /\ rx_partial' = rx_partial
    /\ grm_event' = "none"
    /\ pc' = "knob_return"
    /\ \E spoken \in BOOLEAN : speak(spoken)
    /\ UNCHANGED << variant, data, exc, exit_code, lcd_handle, ser, menu, env, crop_idx,
                    caller, samples, absorbed, tick_diff, kb >>

\* a return from the analysis that leaves the result on the display
KnobReturnNoMenu ==
    /\ pc = "knob_return"
    /\ last_pos' = encoder
    /\ absorbed' = (encoder # last_pos)
    /\ crop_idx' = 0
    /\ pc' = "ai_check"
    /\ UNCHANGED << variant, data, link, exc, exit_code, hw, current_index, env, caller,
                    moisture, samples, tick_diff, grm_event, kb >>
    /\ diag' = "none"
    /\ result' = NoResult

\* a return from the analysis that keeps the stale encoder position
KnobReturnNoResync ==
    /\ pc = "knob_return"
    /\ lcd' = show_menu(current_index)
    /\ absorbed' = (encoder # last_pos)
    /\ crop_idx' = 0
    /\ pc' = "ai_check"
    /\ UNCHANGED << variant, data, link, exc, exit_code, lcd_handle, ser, menu, env, caller,
                    moisture, samples, tick_diff, grm_event, kb >>
    /\ diag' = "none"
    /\ result' = NoResult

\* compiled.py 289-290: show_menu(current_index); last_pos = encoder.steps
KnobReturn ==
    /\ pc = "knob_return"
    /\ lcd' = show_menu(current_index)
    /\ last_pos' = encoder
    /\ absorbed' = (encoder # last_pos)
    /\ crop_idx' = 0
    /\ pc' = "ai_check"
    /\ UNCHANGED << variant, data, link, exc, exit_code, lcd_handle, ser, current_index, env,
                    caller, moisture, samples, tick_diff, grm_event, kb >>
    /\ diag' = "none"
    /\ result' = NoResult

\* compiled.py 293, 299: first sample of the AI button; not pressed: the
\* iteration ends with the 10 ms sleep
AiCheck ==
    /\ pc = "ai_check"
    /\ LET s == is_pressed["ai_button"]
       IN /\ samples' = [button |-> "ai_button", reads |-> << s >>]
          /\ pc' = IF s THEN "ai_debounce" ELSE "poll_encoder"
    /\ absorbed' = FALSE
    /\ UNCHANGED << variant, data, link, exc, exit_code, hw, menu, env, locals, tick_diff,
                    grm_event, diag, kb >>

\* compiled.py 294-296, 299: sleep 100 ms, second sample; a confirmed press
\* calls run_dl_prediction()
AiDebounce ==
    /\ pc = "ai_debounce"
    /\ LET s == is_pressed["ai_button"]
       IN /\ samples' = [samples EXCEPT !.reads = Append(@, s)]
          /\ pc' = IF s THEN "dl_begin" ELSE "poll_encoder"
    /\ press_in_action' = [press_in_action EXCEPT !["ai_button"] = FALSE]
    /\ UNCHANGED << variant, data, link, exc, exit_code, hw, menu, encoder, is_pressed,
                    locals, absorbed, tick_diff, grm_event, diag, kb >>

\* compiled.py 200-209: "Running AI Model", the announcement, the fixed
\* inputs, then the call of get_real_moisture
DlBegin ==
    /\ pc = "dl_begin"
    /\ lcd' = << "running_ai", "" >>
    /\ GrmEnter("dl")
    /\ \E spoken \in BOOLEAN : speak(spoken)
    /\ UNCHANGED << variant, data, exc, exit_code, lcd_handle, ser, menu, env, crop_idx, result,
                    samples, absorbed, tick_diff, kb >>

Label(p, h) == [prediction |-> p, hindi_prediction |-> h]

\* a tree that tests the nitrogen level before the moisture
PredictNitrogenFirst(n, ph10, m) ==
    IF n > 80 THEN Label("Cotton", "Kapaas")
    ELSE IF m < 250 THEN Label("Rice", "Chaawal")
    ELSE IF ph10 < 55 THEN Label("Potato", "Aaloo")
    ELSE IF n <= 30 THEN Label("Legumes", "Dalhan Fasal")
    ELSE Label("Maize", "Makka")
\* a tree whose nitrogen test for Legumes is turned round
PredictLegumesAbove(n, ph10, m) ==
    IF m < 250 THEN Label("Rice", "Chaawal")
    ELSE IF n > 80 THEN Label("Cotton", "Kapaas")
    ELSE IF ph10 < 55 THEN Label("Potato", "Aaloo")
    ELSE IF n > 30 THEN Label("Legumes", "Dalhan Fasal")
    ELSE Label("Maize", "Makka")

\* compiled.py 217-236: the ordered decision tree (ph10 is pH times ten)
Predict(n, ph10, m) ==
    IF m < 250 THEN Label("Rice", "Chaawal")
    ELSE IF n > 80 THEN Label("Cotton", "Kapaas")
    ELSE IF ph10 < 55 THEN Label("Potato", "Aaloo")
    ELSE IF n <= 30 THEN Label("Legumes", "Dalhan Fasal")
    ELSE Label("Maize", "Makka")

\* compiled.py 211-249: run the tree, render "Best Crop:", speak it, hold 3 s
\* and return to the loop
DlCalc ==
    /\ pc = "dl_calc"
    /\ LET label == Predict(data.n, data.ph10, moisture)
       IN /\ result' = [NoResult EXCEPT
                          !.prediction = label.prediction,
                          !.hindi_prediction = label.hindi_prediction]
          /\ lcd' = << "best_crop", label.prediction >>
    /\ moisture' = NoReading
    /\ reader_log' = LogDone(reader_log)
    /\ rx_partial' = rx_partial
    /\ grm_event' = "none"
    /\ pc' = "ai_return"
    /\ \E spoken \in BOOLEAN : speak(spoken)
    /\ UNCHANGED << variant, data, exc, exit_code, lcd_handle, ser, menu, env, crop_idx,
                    caller, samples, absorbed, tick_diff, kb >>

\* compiled.py 297, 299: show_menu after the prediction, then the 10 ms
\* sleep; last_pos is not touched
AiReturn ==
    /\ pc = "ai_return"
    /\ lcd' = show_menu(current_index)
    /\ pc' = "poll_encoder"
    /\ diag' = "none"
    /\ result' = NoResult
    /\ UNCHANGED << variant, data, link, exc, exit_code, lcd_handle, ser, menu, env,
                    crop_idx, caller, moisture, samples, absorbed, tick_diff, grm_event, kb >>

\* ------------------------------------------------- interrupts and errors
\* Statements before the try of line 269: nothing catches there
StartupPcs == {"serial_setup", "startup_speak", "startup_menu"}
\* Statements inside the try of 269-299 and outside get_real_moisture's own try
LoopPcs ==
    {"poll_encoder", "knob_check", "knob_debounce", "knob_return",
     "ai_check", "ai_debounce", "ai_return"} \cup AnalyzingPcs \cup PredictingPcs
\* Statements that write to the display, where an I/O error can surface
LcdPcs ==
    {"poll_encoder", "an_begin", "an_calc", "knob_return", "dl_begin", "dl_calc",
     "ai_return"}

\* compiled.py 75-89, 264-267: KeyboardInterrupt before the try block is
\* entered ends the process at once; no handler, no finally
InterruptStartup ==
    /\ pc \in StartupPcs
    /\ pc' = "exited"
    /\ exc' = "KeyboardInterrupt"
    /\ exit_code' = 130
    /\ diag' = "none"
    /\ UNCHANGED << variant, data, link, hw, menu, env, locals, samples, absorbed, tick_diff,
                    grm_event, kb >>

\* compiled.py 267: show_menu raises before the try block is entered
ErrorStartup ==
    /\ pc = "startup_menu"
    /\ pc' = "exited"
    /\ exc' = "Exception"
    /\ exit_code' = 1
    /\ diag' = "none"
    /\ UNCHANGED << variant, data, link, hw, menu, env, locals, samples, absorbed, tick_diff,
                    grm_event, kb >>

\* the loop is left for the finally block: the frames of the action are gone
Unwind(e) ==
    /\ exc' = e
    /\ pc' = "finally"
    /\ moisture' = NoReading
    /\ crop_idx' = 0
    /\ caller' = "none"
    /\ result' = NoResult
    /\ samples' = NoSamples
    /\ absorbed' = FALSE
    /\ tick_diff' = 0
    /\ grm_event' = "none"
    /\ diag' = "none"
    /\ rx_partial' = FALSE
    /\ reader_log' = [NoLog EXCEPT !.on = reader_log.on]
    /\ UNCHANGED << variant, data, exit_code, hw, menu, env, kb >>

\* compiled.py 301-303: KeyboardInterrupt inside the loop is caught, then finally
InterruptLoop ==
    /\ pc \in LoopPcs
    /\ Unwind("KeyboardInterrupt")

\* compiled.py 269-303: any other exception inside the loop runs finally and
\* then propagates
ErrorLoop ==
    /\ pc \in LcdPcs
    /\ Unwind("Exception")

\* compiled.py 109-121: KeyboardInterrupt inside get_real_moisture's try is
\* caught by the bare excepts: the outer one returns 400, the inner one passes
InterruptRead ==
    /\ pc \in ReadWaitPcs
    /\ IF pc = "grm_readline"
       THEN Goto(caller, "grm_sleep", "interrupt")
       ELSE Return(caller, READ_ERROR_DEFAULT, "interrupt")
    /\ diag' = "none"
    /\ UNCHANGED << variant, data, exc, exit_code, hw, menu, env, crop_idx, result, samples,
                    absorbed, tick_diff, kb >>

\* compiled.py 303-307: lcd.clear(); lcd.close(clear=True); ser.close() if
\* ser; then the process ends: status 0 after a caught interrupt, 1 after a
\* propagated exception
Finally ==
    /\ pc = "finally"
    /\ lcd' = Blank
    /\ lcd_handle' = "closed"
    /\ ser' = IF ser = "open" THEN "closed" ELSE ser
    /\ pc' = "exited"
    /\ exit_code' = IF exc = "Exception" THEN 1 ELSE 0
    /\ UNCHANGED << variant, data, link, exc, menu, env, locals, hist, kb >>

\* ---------------------------------------------------------- environment
\* The controls exist from line 75 on and are driven until the process ends.
ControlsLive == variant = "compiled" /\ pc \notin {"lcd_setup", "exited"}

\* gpiozero RotaryEncoder: one detent in either direction
Rotate ==
    /\ ControlsLive
    /\ \E d \in {-1, 1} :
         /\ encoder + d \in (0 - MaxSteps)..MaxSteps
         /\ encoder' = encoder + d
    /\ UNCHANGED << variant, data, link, pc, exc, exit_code, hw, menu, is_pressed,
                    press_in_action, locals, hist, kb >>

\* gpiozero Button: the pin goes active
Press ==
    /\ ControlsLive
    /\ \E b \in Buttons :
         /\ ~is_pressed[b]
         /\ is_pressed' = [is_pressed EXCEPT ![b] = TRUE]
         /\ press_in_action' = [press_in_action EXCEPT ![b] = InAction]
    /\ UNCHANGED << variant, data, link, pc, exc, exit_code, hw, menu, encoder, locals, hist, kb >>

\* gpiozero Button: the pin goes inactive
Release ==
    /\ ControlsLive
    /\ \E b \in Buttons :
         /\ is_pressed[b]
         /\ is_pressed' = [is_pressed EXCEPT ![b] = FALSE]
         /\ press_in_action' = [press_in_action EXCEPT ![b] = FALSE]
    /\ UNCHANGED << variant, data, link, pc, exc, exit_code, hw, menu, encoder, locals, hist, kb >>

\* ------------------------------------------------- major.py (keyboard variant)
\* CROP_DATA (major.py 56-73), nutrient levels in tenths of mg/kg
CROP_DATA ==
    [c \in {"Rice", "Wheat", "Carrot", "Potato"} |->
       CASE c = "Rice"   -> [nitrogen |-> 220, phosphorus |-> 350, potassium |-> 450]
         [] c = "Wheat"  -> [nitrogen |-> 180, phosphorus |-> 250, potassium |-> 300]
         [] c = "Carrot" -> [nitrogen |-> 150, phosphorus |-> 300, potassium |-> 400]
         [] c = "Potato" -> [nitrogen |-> 250, phosphorus |-> 450, potassium |-> 500]]

\* read_soil_sensor (major.py 37-50): round(uniform(lo, hi), 1), in tenths;
\* the two ends of each range stand for the range
SoilReadings ==
    [nitrogen : {50, 250}, phosphorus : {100, 400}, potassium : {150, 550}]

\* self.crops[i]
KbCrop(i) == crops[i + 1]

\* major.py 165: the first menu render
KbInit ==
    /\ pc = "kb_init"
    /\ oled' = << "menu", KbCrop(current_crop_index) >>
    /\ pc' = "kb_while"
    /\ UNCHANGED << variant, data, link, exc, exit_code, hw, menu, env, locals, hist,
                    current_crop_index, running, last_knob_input, last_button_input >>

\* major.py 167, 183: loop test; "Shutting down." when running is false
KbWhile ==
    /\ pc = "kb_while"
    /\ pc' = IF running THEN "kb_input" ELSE "kb_done"
    /\ UNCHANGED << variant, data, link, exc, exit_code, hw, menu, env, locals, hist, kb >>

\* major.py 104-124: get_user_input
get_user_input ==
    /\ pc = "kb_input"
    /\ \E choice \in {"k+", "k-", "b", "q", "x"} :
         /\ last_knob_input' =
              IF choice = "k+" THEN "clockwise"
              ELSE IF choice = "k-" THEN "counter-clockwise"
              ELSE ""
         /\ last_button_input' = IF choice = "b" THEN "pressed" ELSE ""
         /\ running' = IF choice = "q" THEN FALSE ELSE running
    /\ pc' = "kb_knob"
    /\ UNCHANGED << variant, data, link, exc, exit_code, hw, menu, env, locals, hist,
                    current_crop_index, oled >>

\* major.py 171-174: knob handling
KbKnob ==
    /\ pc = "kb_knob"
    /\ current_crop_index' =
         IF last_knob_input = "clockwise"
         THEN PyMod(current_crop_index + 1, Len(crops))
         ELSE IF last_knob_input = "counter-clockwise"
         THEN PyMod(current_crop_index - 1 + Len(crops), Len(crops))
         ELSE current_crop_index
    /\ pc' = "kb_button"
    /\ UNCHANGED << variant, data, link, exc, exit_code, hw, menu, env, locals, hist,
                    running, last_knob_input, last_button_input, oled >>

\* major.py 177-178
KbButton ==
    /\ pc = "kb_button"
    /\ pc' = IF last_button_input = "pressed" THEN "kb_compute" ELSE "kb_refresh"
    /\ UNCHANGED << variant, data, link, exc, exit_code, hw, menu, env, locals, hist, kb >>

\* max(deficiencies, key=deficiencies.get): the first key, in insertion
\* order, that carries the largest value
MostDeficient(ideal, cur) ==
    LET n == ideal.nitrogen - cur.nitrogen
        p == ideal.phosphorus - cur.phosphorus
        k == ideal.potassium - cur.potassium
    IN IF n >= p /\ n >= k THEN << "Nitrogen", n >>
       ELSE IF p >= k THEN << "Phosphorus", p >>
       ELSE << "Potassium", k >>

\* major.py 127-159: compute_recommendation
compute_recommendation ==
    /\ pc = "kb_compute"
    /\ \E current_levels \in SoilReadings :
         LET selected_crop_name == KbCrop(current_crop_index)
             worst == MostDeficient(CROP_DATA[selected_crop_name], current_levels)
         IN oled' = IF worst[2] > 20
                    THEN << "recommend", worst[1] >>
                    ELSE << "healthy", selected_crop_name >>
    /\ pc' = "kb_refresh"
    /\ UNCHANGED << variant, data, link, exc, exit_code, hw, menu, env, locals, hist,
                    current_crop_index, running, last_knob_input, last_button_input >>

\* major.py 181: the menu is rendered after every input
KbRefresh ==
    /\ pc = "kb_refresh"
    /\ oled' = << "menu", KbCrop(current_crop_index) >>
    /\ pc' = "kb_while"
    /\ UNCHANGED << variant, data, link, exc, exit_code, hw, menu, env, locals, hist,
                    current_crop_index, running, last_knob_input, last_button_input >>

\* ------------------------------------------------------- specifications
Startup == LcdSetup \/ SerialSetup \/ StartupSpeak \/ StartupMenu

Loop ==
    \/ PollEncoder \/ KnobCheck \/ KnobDebounce \/ KnobReturn
    \/ AiCheck \/ AiDebounce \/ AiReturn

Actions == AnBegin \/ AnCalc \/ DlBegin \/ DlCalc

get_real_moisture == GrmPoll \/ GrmReadline \/ GrmReadlineRaises \/ GrmSleep

Program == Startup \/ Loop \/ Actions \/ get_real_moisture \/ Finally

Exceptions ==
    InterruptStartup \/ ErrorStartup \/ InterruptLoop \/ ErrorLoop \/ InterruptRead

Controls == Rotate \/ Press \/ Release

Keyboard ==
    KbInit \/ KbWhile \/ get_user_input \/ KbKnob \/ KbButton
      \/ compute_recommendation \/ KbRefresh

Next == Program \/ Exceptions \/ Controls \/ Keyboard

Spec == Init /\ [][Next]_vars

\* The interpreter keeps executing the script: a statement that can run
\* does run.  Nothing is assumed of the controls, the operator or the sensor.
FairSpec == Spec /\ WF_vars(Program)

\* The two calculations on their own: the state is that of compiled.py right
\* after get_real_moisture() has returned to the action a confirmed press
\* started, for any selected crop and a range of readings; for the
\* prediction also for other records than the one get_fixed_npk_ph() holds.
TreeN == {20, 30, 31, 80, 81}
TreePh10 == {54, 55, 65}
TreeMoisture == {0, 249, 250, 251, 1023}

CalcInit ==
    /\ variant = "compiled"
    /\ pc \in {"an_calc", "dl_calc"}
    /\ exc = "none"
    /\ exit_code = -1
    /\ lcd_handle = "open"
    /\ ser = "open"
    /\ rx_partial = FALSE
    /\ reader_log = NoLog
    /\ encoder = 0
    /\ last_pos = 0
    /\ press_in_action = [b \in Buttons |-> FALSE]
    /\ caller = "none"
    /\ result = NoResult
    /\ absorbed = FALSE
    /\ tick_diff = 0
    /\ grm_event = "line"
    /\ diag = "none"
    /\ IF pc = "an_calc"
       THEN /\ lcd = << "analyzing", "" >>
            /\ is_pressed = [b \in Buttons |-> b = "knob_button"]
            /\ samples = [button |-> "knob_button", reads |-> << TRUE, TRUE >>]
            /\ current_index \in 0..(Len(CROPS) - 1)
            /\ crop_idx = current_index
            /\ \E d \in (0 - 2)..MaxDiff : moisture = CropAt(crop_idx).limit + d
            /\ data = [n |-> FixedN, ph10 |-> FixedPh10]
       ELSE /\ lcd = << "running_ai", "" >>
            /\ is_pressed = [b \in Buttons |-> b = "ai_button"]
            /\ samples = [button |-> "ai_button", reads |-> << TRUE, TRUE >>]
            /\ current_index = 0
            /\ crop_idx = 0
            /\ moisture \in TreeMoisture
            /\ data \in [n : TreeN, ph10 : TreePh10]
    /\ current_crop_index = 0
    /\ running = TRUE
    /\ last_knob_input = ""
    /\ last_button_input = ""
    /\ oled = << "off", "" >>

CalcNext == AnCalc \/ DlCalc

CalcSpec == CalcInit /\ [][CalcNext]_vars

\* Runs of compiled.py that keep the log of the reader.  The buttons are as
\* the operator holds them from power-on and the encoder is left alone, so
\* that a held button starts one action after the other.
ReaderInit ==
    /\ variant = "compiled"
    /\ pc = "lcd_setup"
    /\ exc = "none"
    /\ exit_code = -1
    /\ lcd_handle = "uninit"
    /\ lcd = Blank
    /\ ser = "none"
    /\ rx_partial = FALSE
    /\ reader_log = [NoLog EXCEPT !.on = TRUE]
    /\ encoder = 0
    /\ is_pressed \in [Buttons -> BOOLEAN]
    /\ press_in_action = [b \in Buttons |-> FALSE]
    /\ current_index = 0
    /\ last_pos = 0
    /\ crop_idx = 0
    /\ caller = "none"
    /\ moisture = NoReading
    /\ data = [n |-> FixedN, ph10 |-> FixedPh10]
    /\ result = NoResult
    /\ samples = NoSamples
    /\ absorbed = FALSE
    /\ tick_diff = 0
    /\ grm_event = "none"
    /\ diag = "none"
    /\ current_crop_index = 0
    /\ running = TRUE
    /\ last_knob_input = ""
    /\ last_button_input = ""
    /\ oled = << "off", "" >>

ReaderNext == Program \/ Exceptions

ReaderSpec == ReaderInit /\ [][ReaderNext]_vars

TypeOK ==
    /\ variant \in {"compiled", "major"}
    /\ exc \in {"none", "KeyboardInterrupt", "Exception", "SystemExit"}
    /\ lcd_handle \in {"uninit", "open", "closed"}
    /\ ser \in {"none", "open", "closed"}
    /\ encoder \in (0 - MaxSteps)..MaxSteps
    /\ last_pos \in (0 - MaxSteps)..MaxSteps
    /\ is_pressed \in [Buttons -> BOOLEAN]
    /\ moisture \in {NoReading, MOCK_MOISTURE, READ_ERROR_DEFAULT, 200, 300}
                      \cup {0, 5, 2}
    /\ rx_partial \in BOOLEAN
    /\ data = [n |-> FixedN, ph10 |-> FixedPh10]

\* =================================================================== claims

\* the remainder as mathematics defines it: the r in 0..n-1 with n | a - r
MathMod(a, n) ==
    CHOOSE r \in 0..(n - 1) :
        \E q \in (0 - (2 * MaxSteps + n))..(2 * MaxSteps + n) : a = q * n + r

\* C1: in every reachable state of either menu loop the selected index is an
\* integer in [0, cropCount), so the crop table lookup is defined.
C1_IndexInRange ==
    /\ variant = "compiled" =>
         /\ current_index \in 0..(Len(CROPS) - 1)
         /\ CropAt(current_index) = CROPS[current_index + 1]
    /\ variant = "major" =>
         /\ current_crop_index \in 0..(Len(crops) - 1)
         /\ KbCrop(current_crop_index) \in DOMAIN CROP_DATA

\* a tick has just wrapped the index below zero: from crop 0 to the last crop
C1_Witness ==
    /\ pc = "knob_check"
    /\ tick_diff < 0
    /\ last_pos = -1
    /\ current_index = Len(CROPS) - 1

\* C2: a polling tick that sees a counter different from last_pos sets
\* current_index to (current_index + delta) mod cropCount for any integer
\* delta and then last_pos to the counter; a tick that sees no difference
\* leaves both alone.
C2_TickAppliesDelta ==
    [][ (pc = "poll_encoder" /\ pc' = "knob_check") =>
          IF encoder # last_pos
          THEN /\ current_index' =
                    MathMod(current_index + (encoder - last_pos), Len(CROPS))
               /\ last_pos' = encoder
          ELSE /\ current_index' = current_index
               /\ last_pos' = last_pos ]_vars

\* a tick has just applied a negative delta larger in magnitude than the
\* crop count
C2_Witness ==
    /\ pc = "knob_check"
    /\ tick_diff < 0 - Len(CROPS)
    /\ last_pos = encoder

\* C3: an action runs only after its button read pressed on both samples of
\* one check; a press seen on the first sample and gone on the second starts
\* nothing and is not kept for later.
C3_TwoSamples ==
    /\ InAction =>
         samples = [button |-> IF pc \in AnalyzingPcs \/ caller = "an"
                               THEN "knob_button" ELSE "ai_button",
                    reads |-> << TRUE, TRUE >>]
    /\ samples.reads = << TRUE, FALSE >> =>
         /\ ~InAction
         /\ pc \in {"ai_check", "poll_encoder", "finally", "exited"}

\* the knob press was seen once, was gone 100 ms later, and the loop moved on
C3_Witness ==
    /\ pc = "ai_check"
    /\ samples = [button |-> "knob_button", reads |-> << TRUE, FALSE >>]

\* C4: a press that began while an action was running never starts an
\* action, even when it is still held after that action has returned.
C4_NoStartFromPressDuringAction ==
    [][ /\ (pc = "knob_debounce" /\ pc' = "an_begin") =>
             ~press_in_action["knob_button"]
        /\ (pc = "ai_debounce" /\ pc' = "dl_begin") =>
             ~press_in_action["ai_button"] ]_vars

\* the loop is back in Menu and the display shows the selected crop
BackInMenu ==
    /\ pc \in {"poll_encoder", "knob_check", "knob_debounce", "ai_check",
               "ai_debounce"}
    /\ lcd = show_menu(current_index)

ActionEntered == pc \in {"an_begin", "dl_begin"}

\* C5 as stated: every entry into Analyzing or Predicting is eventually
\* followed by the refreshed Menu (or by the end of the process), whatever
\* the sensor does.
C5_AlwaysReturns == ActionEntered ~> (BackInMenu \/ pc = "exited")

\* C5 amended: every entry into Analyzing or Predicting is eventually
\* followed by the refreshed Menu (or by the end of the process), unless the
\* run stays in the wait loop of the sensor read for ever.
C5_ReturnsUnlessReadBlocks ==
    (<>[](pc \in ReadWaitPcs)) \/ (ActionEntered ~> (BackInMenu \/ pc = "exited"))

\* an analysis that read an open transport has returned: the loop is back in
\* Menu, right after the confirmed knob press, and the menu is on the display
C5_Witness ==
    /\ pc = "ai_check"
    /\ samples = [button |-> "knob_button", reads |-> << TRUE, TRUE >>]
    /\ ser = "open"
    /\ lcd = show_menu(current_index)

\* C6: the step that ends an Analyzing action sets last_pos to the
\* encoder's counter and leaves current_index at the crop that was analysed,
\* whatever the encoder did since the first button sample.
C6_ResyncAfterAnalysis ==
    [][ /\ (pc \in AnalyzingPcs \cup {"knob_return"} \/ caller = "an")
             => current_index = crop_idx
        /\ (pc = "knob_return" /\ pc' = "ai_check") =>
             /\ last_pos' = encoder'
             /\ current_index' = crop_idx ]_vars

\* the analysis is over, the encoder moved while it ran, and nothing is pending
C6_Witness ==
    /\ pc = "ai_check"
    /\ absorbed
    /\ last_pos = encoder

\* C7: the step that ends a Predicting action sets last_pos to the
\* encoder's counter.
C7_ResyncAfterPrediction ==
    [][ (pc = "ai_return" /\ pc' = "poll_encoder") => last_pos' = encoder' ]_vars

\* C8: whenever the process has ended after the display was initialised, the
\* display is blank, its handle is released and the transport is not open.
C8_CleanupOnEveryExit ==
    (pc = "exited" /\ lcd_handle # "uninit") =>
        /\ lcd = Blank
        /\ lcd_handle = "closed"
        /\ ser # "open"

\* C9: a read that met a transport error has returned the fixed default.
C9_ReadErrorReturnsDefault ==
    grm_event = "io_error" =>
        /\ pc \in {"an_calc", "dl_calc"}
        /\ moisture = READ_ERROR_DEFAULT

\* C10: when the transport did not open, the failed open does not end the
\* process, the serial link is never read, and every reading is the mock
\* value, which is not the read-error default.
C10_MockWhenNoTransport ==
    [][ /\ (pc = "serial_setup" /\ pc' # pc /\ exc' = "none") =>
             pc' = "startup_speak"
        /\ (variant = "compiled" /\ ser' = "none") =>
             /\ pc' \notin ReadWaitPcs
             /\ pc' \in {"an_calc", "dl_calc"} =>
                  /\ moisture' = MOCK_MOISTURE
                  /\ moisture' # READ_ERROR_DEFAULT
                  /\ grm_event' = "mock" ]_vars

\* a prediction is about to use the mock value, the transport never opened
C10_Witness ==
    /\ pc = "dl_calc"
    /\ ser = "none"
    /\ moisture = MOCK_MOISTURE

\* C11: when the display fails to initialise the process prints "LCD Error"
\* and ends with a non-zero status, and nothing else has happened: no
\* control was created or read, the transport was not opened, nothing was
\* spoken or rendered, and the loop was never reached.  No statement after
\* the display setup runs without a display.
C11_LcdFailureIsFatal ==
    (variant = "compiled" /\ lcd_handle = "uninit") =>
        /\ pc \in {"lcd_setup", "exited"}
        /\ pc = "exited" =>
             /\ exc = "SystemExit"
             /\ exit_code # 0
             /\ diag = "LCD Error"
             /\ ser = "none"
             /\ lcd = Blank
             /\ encoder = 0
             /\ is_pressed = [b \in Buttons |-> FALSE]
             /\ samples = NoSamples
             /\ menu = << 0, 0 >>

\* the display did not initialise and the process has ended
C11_Witness ==
    /\ pc = "exited"
    /\ lcd_handle = "uninit"
    /\ diag = "LCD Error"
    /\ exit_code = 1

\* C14: a speech call that fails is logged and skipped: no exception leaves
\* the caller, the display shows what the caller rendered before the call
\* (at startup the caller goes on to the first menu), and the step after the
\* result of an action puts the menu back on the display.
C14_SpeechFailureTolerated ==
    [][ /\ diag' = "TTS Error" =>
             /\ exc' = "none"
             /\ \/ pc' = "startup_menu"
                \/ /\ lcd' = << "analyzing", "" >>
                   /\ pc' = "an_calc" \/ (pc' = "grm_poll" /\ caller' = "an")
                \/ /\ lcd' = << "running_ai", "" >>
                   /\ pc' = "dl_calc" \/ (pc' = "grm_poll" /\ caller' = "dl")
                \/ /\ lcd' = << "result", CropAt(current_index').name >>
                   /\ pc' = "knob_return"
                \/ /\ lcd'[1] = "best_crop"
                   /\ pc' = "ai_return"
        /\ (diag = "TTS Error" /\ pc \in {"knob_return", "ai_return"}
               /\ pc' # pc /\ exc' = "none") =>
             /\ pc' \in {"ai_check", "poll_encoder"}
             /\ lcd' = show_menu(current_index') ]_vars

\* the result of an analysis is on the display although its speech failed
C14_Witness ==
    /\ pc = "knob_return"
    /\ diag = "TTS Error"
    /\ lcd = << "result", CropAt(current_index).name >>

\* the branches of the tree in their order, and the crop of each
TreeBranches(n, ph10, m) == << m < 250, n > 80, ph10 < 55, n <= 30, TRUE >>
BranchCrop == << "Rice", "Cotton", "Potato", "Legumes", "Maize" >>
\* the Hindi name of each of these crops
BranchCropHindi == << "Chaawal", "Kapaas", "Aaloo", "Dalhan Fasal", "Makka" >>

FirstBranch(n, ph10, m) ==
    CHOOSE i \in 1..5 :
        /\ TreeBranches(n, ph10, m)[i]
        /\ \A j \in 1..(i - 1) : ~TreeBranches(n, ph10, m)[j]

\* C12: for every record {n, ph} and reading, the prediction is the crop of
\* the first branch the input satisfies, it is what the display shows, and
\* the spoken label is the Hindi name of that same crop.
C12_FirstMatchingBranch ==
    [][ (pc = "dl_calc" /\ pc' = "ai_return") =>
          LET i == FirstBranch(data.n, data.ph10, moisture)
          IN /\ result'.prediction = BranchCrop[i]
             /\ result'.hindi_prediction = BranchCropHindi[i]
             /\ lcd' = << "best_crop", BranchCrop[i] >> ]_vars

\* an input that satisfies the moisture branch and the nitrogen branch gave Rice
C12_Witness ==
    /\ pc = "ai_return"
    /\ data.n > 80
    /\ result.prediction = "Rice"
    /\ result.hindi_prediction = "Chaawal"

\* C13: for a reading m and the dry threshold t of the selected crop, the
\* water quantity (in tenths) is 0 exactly when m <= t, is never negative,
\* is (m - t) * 0.05 rounded to one decimal place, and is not below the
\* quantity of any smaller reading above t.
C13_WaterNeeded ==
    [][ (pc = "an_calc" /\ pc' = "knob_return") =>
          LET m == moisture
              t == CropAt(crop_idx).limit
              w == result'.water
          IN /\ (w = 0) <=> (m <= t)
             /\ w >= 0
             /\ m > t => (2 * w - (m - t)) \in {-1, 0, 1}
             /\ \A m2 \in (t + 1)..m : water_needed(m2, t) <= w ]_vars

\* a reading just above the threshold gave the smallest quantity, 0.1 l
C13_Witness ==
    /\ pc = "knob_return"
    /\ result.water = 1

\* ------------------------------------------------------ the sensor reader
\* this step is a readline() that returned a line
LineRead == pc = "grm_readline" /\ grm_event' \in {"line", "fragment", "junk"}

\* the text of a line: what is left without the line terminator
Payload(raw) == SelectSeq(raw, LAMBDA c : c \notin {"\r", "\n"})

\* the line consists only of decimal digits
OnlyDigits(raw) ==
    /\ Payload(raw) # << >>
    /\ \A i \in 1..Len(Payload(raw)) : Payload(raw)[i] \in Digits

\* the number a digit string denotes, read from the left
RECURSIVE DecimalValue(_, _)
DecimalValue(p, acc) ==
    IF p = << >> THEN acc
    ELSE DecimalValue(Tail(p), 10 * acc + DigitVal(Head(p)))

\* C15 as stated: a read examines at most 10 lines: once ten lines were
\* examined the read has returned.
C15_AtMostTenLines ==
    /\ reader_log.lines <= 10
    /\ pc \in ReadWaitPcs => reader_log.lines < 10

\* C15 amended: the reader has no line budget.  The tenth line and every
\* later one, when it does not parse, leaves the read waiting as any other,
\* and a read returns without a line only when an exception was caught
\* outside readline(), with the default.
C15_NoLineBudget ==
    [][ /\ (reader_log'.on /\ LineRead /\ reader_log'.lines >= 10
               /\ ~OnlyDigits(reader_log'.line)) =>
             /\ pc' = "grm_sleep"
             /\ caller' = caller
        /\ (pc \in ReadWaitPcs /\ pc' \in {"an_calc", "dl_calc"}
               /\ grm_event' \notin {"line", "fragment"}) =>
             /\ pc # "grm_readline"
             /\ grm_event' \in {"io_error", "interrupt"}
             /\ moisture' = READ_ERROR_DEFAULT ]_vars

\* eleven lines were examined and the read is still waiting
C15_Witness ==
    /\ pc = "grm_sleep"
    /\ reader_log.lines > 10
    /\ grm_event = "junk"

\* C16: an interrupt that arrives during an action ends the loop: it is
\* never the event a sensor read returned with or went on waiting after.
C16_InterruptUnwinds ==
    grm_event = "interrupt" => pc \in {"finally", "exited"}

\* C17: a line that readline() returns ends the read exactly when it
\* consists only of decimal digits, and then the read returns its value; any
\* other line is skipped: the read goes on, nothing is raised or reported.
\* So the value of a read is that of the first digit line after the reset.
C17_FirstDigitLineReturned ==
    [][ (reader_log'.on /\ LineRead) =>
          LET raw == reader_log'.line
          IN IF OnlyDigits(raw)
             THEN /\ pc' \in {"an_calc", "dl_calc"}
                  /\ moisture' = DecimalValue(Payload(raw), 0)
             ELSE /\ pc' = "grm_sleep"
                  /\ caller' = caller
                  /\ moisture' = NoReading
                  /\ exc' = "none"
                  /\ diag' = "none" ]_vars

\* a read returned 300 from a whole line after it had skipped two lines
C17_Witness ==
    /\ pc \in {"an_calc", "dl_calc"}
    /\ grm_event = "line"
    /\ reader_log.lines = 3
    /\ moisture = 300

\* C18: a value that a read took from the link is a whole line: never the
\* rest of a line whose first bytes the reset discarded.
C18_WholeFreshLine ==
    (pc \in {"an_calc", "dl_calc"}
       /\ grm_event \notin {"mock", "io_error", "interrupt"}) =>
        grm_event = "line"

\* C19: a read error leaves the transport as it was: only the cleanup
\* closes it; every action begun with the transport open resets and reads
\* the link (or meets an error doing so) and never takes the mock value; and
\* the read after a failed one returns the line the sensor sends.
C19_ReadErrorKeepsTransport ==
    [][ /\ (ser = "open" /\ pc # "finally") => ser' = "open"
        /\ (pc \in {"an_begin", "dl_begin"} /\ ser = "open" /\ pc' # pc
               /\ exc' = "none") =>
             /\ grm_event' # "mock"
             /\ \/ pc' = "grm_poll"
                \/ moisture' = READ_ERROR_DEFAULT /\ grm_event' = "io_error"
        /\ reader_log'.prev = "recovered" =>
             /\ pc' \in {"an_calc", "dl_calc"}
             /\ ser' = "open"
             /\ moisture' = DecimalValue(Payload(reader_log'.line), 0) ]_vars

\* the read before ended in a transport error and this one returned 200
C19_Witness ==
    /\ pc \in {"an_calc", "dl_calc"}
    /\ reader_log.prev = "recovered"
    /\ grm_event = "line"
    /\ moisture = 200

\* C20: at every button sample of the loop the display shows the menu entry
\* of current_index, and the analysis a confirmed knob press starts is that
\* of the crop the display showed at both samples.
C20_MenuShowsSelectedCrop ==
    [][ /\ pc \in {"knob_check", "knob_debounce", "ai_check", "ai_debounce"} =>
             lcd = << "menu", CROPS[current_index + 1].name >>
        /\ (pc = "knob_debounce" /\ pc' = "an_begin") =>
             /\ lcd = << "menu", CROPS[crop_idx' + 1].name >>
             /\ \A i \in 1..Len(CROPS) :
                  CROPS[i].name = lcd[2] => i = crop_idx' + 1 ]_vars

\* the knob was turned to the third crop, the display shows it, and the
\* confirmed press has started its analysis
C20_Witness ==
    /\ pc = "an_begin"
    /\ crop_idx = 2
    /\ tick_diff = 0
    /\ lcd = << "menu", "Lettuce" >>

\* C21: in the running program every prediction is made from n = 20 and
\* pH = 6.5: it names and displays Rice when the moisture read is below 250
\* and Legumes otherwise, and never Cotton, Potato or Maize.
C21_OnlyRiceOrLegumes ==
    [][ (pc = "dl_calc" /\ pc' = "ai_return") =>
          /\ data.n = 20 /\ data.ph10 = 65
          /\ result'.prediction = IF moisture < 250 THEN "Rice" ELSE "Legumes"
          /\ result'.hindi_prediction =
                 IF moisture < 250 THEN "Chaawal" ELSE "Dalhan Fasal"
          /\ lcd' = << "best_crop", result'.prediction >>
          /\ result'.prediction \notin {"Cotton", "Potato", "Maize"} ]_vars

\* a prediction made from a real read has passed the Cotton and the Potato
\* test and shows Legumes
C21_Witness ==
    /\ pc = "ai_return"
    /\ ser = "open"
    /\ result.prediction = "Legumes"
    /\ lcd = << "best_crop", "Legumes" >>

====
